---- MODULE Spec2Model ----
(***************************************************************************)
(* next-env-safe: createEnv validates two schema groups (server, client)   *)
(* against a runtime environment, merges the validated values into a       *)
(* frozen object and returns it behind a Proxy whose get trap rejects      *)
(* browser-side reads of server keys.  The repository holds two            *)
(* definitions of createEnv; both are modelled (createEnv, createEnv_2).   *)
(*                                                                         *)
(* Property names and env keys are sequences of one-character strings so   *)
(* that String.prototype.startsWith is computed, not assumed.  JavaScript  *)
(* values are pairs <<type, representation>>.                              *)
(***************************************************************************)
EXTENDS Integers, Sequences, FiniteSets, TLC

VARIABLES
    window,      \* typeof window in the ambient realm: "undefined" | "object"
    strictMode,  \* whether the build runs the module body as strict code
    pc,          \* "idle" | "returned" | "threw": position of the createEnv call
    call,        \* the call: definition used, config, context at the call, safeParse calls, console.warn
    thrown,      \* the error createEnv threw, if any
    guarded,     \* the returned Proxy: its frozen target and the closure (isServer, server)
    clientObj,   \* the object built for the `client` field
    snapshot,    \* what every declared key read as immediately after construction
    lastOp,      \* the last operation a caller performed on the Result Object
    writes       \* number of caller write attempts so far

vars == <<window, strictMode, pc, call, thrown, guarded, clientObj, snapshot, lastOp, writes>>

----------------------------------------------------------------------------
(* Bounds *)

MaxGroupKeys == 2
MaxEnvKeys == 2
MaxWrites == 1

----------------------------------------------------------------------------
(* Names *)

DEFAULT_PREFIX == <<"N","E","X","T","_","P","U","B","L","I","C","_">>
CustomPrefix == <<"D">>

DB == <<"D","B">>
NEXT_PUBLIC_A == DEFAULT_PREFIX \o <<"A">>
NEXT_PUBLIC_B == DEFAULT_PREFIX \o <<"B">>
client == <<"c","l","i","e","n","t">>
toString == <<"t","o","S","t","r","i","n","g">>
hasOwnProperty == <<"h","a","s","O","w","n","P","r","o","p","e","r","t","y">>
UNDECLARED == <<"X">>
SymbolToPrimitive == <<"Symbol.toPrimitive">>

KeyUniverse == {DB, client, NEXT_PUBLIC_A, NEXT_PUBLIC_B}
\* names offered to the server group, to the client group and to runtimeEnv
ServerNames == {DB, client, NEXT_PUBLIC_A}
ClientNames == {NEXT_PUBLIC_A, NEXT_PUBLIC_B, DB}
EnvNames == {DB, NEXT_PUBLIC_A, NEXT_PUBLIC_B}
Prefixes == {DEFAULT_PREFIX, CustomPrefix}
Symbols == {SymbolToPrimitive}
ObjectPrototype == {toString, hasOwnProperty}
Props == KeyUniverse \cup ObjectPrototype \cup {UNDECLARED} \cup Symbols

typeofProp(prop) == IF prop \in Symbols THEN "symbol" ELSE "string"

----------------------------------------------------------------------------
(* JavaScript values, objects and completions *)

Undefined == <<"undefined", "">>
Str(s) == <<"string", s>>
Num(s) == <<"number", s>>
Fn(name) == <<"function", name[1]>>
ClientRef == <<"object", "client">>

EmptyObj == [k \in {} |-> Undefined]

Return(v) == [outcome |-> "return", value |-> v]
Throw(name) == [outcome |-> "throw", value |-> <<"error", name>>]

\* { ...a, ...b }: later spreads win
Spread(a, b) ==
    [k \in DOMAIN a \cup DOMAIN b |-> IF k \in DOMAIN b THEN b[k] ELSE a[k]]

\* `prop in obj` for an ordinary object whose prototype is Object.prototype
HasProperty(obj, prop) == prop \in DOMAIN obj \/ prop \in ObjectPrototype

\* Reflect.get(target, prop, receiver) on an ordinary object with data properties
ReflectGet(target, prop) ==
    IF prop \in DOMAIN target THEN target[prop]
    ELSE IF prop \in ObjectPrototype THEN Fn(prop)
    ELSE Undefined

\* [[Set]] on an ordinary object; a frozen object rejects every write
OrdinarySet(obj, frozen, prop, v) ==
    IF frozen THEN [ok |-> FALSE, obj |-> obj]
    ELSE [ok |-> TRUE, obj |-> Spread(obj, [k \in {prop} |-> v])]

\* [[Delete]] on an ordinary object; a frozen object keeps its own properties
OrdinaryDelete(obj, frozen, prop) ==
    IF prop \notin DOMAIN obj THEN [ok |-> TRUE, obj |-> obj]
    ELSE IF frozen THEN [ok |-> FALSE, obj |-> obj]
    ELSE [ok |-> TRUE, obj |-> [k \in DOMAIN obj \ {prop} |-> obj[k]]]

\* a rejected write throws in strict code and is ignored in sloppy code
WriteCompletion(ok, strict) ==
    IF ok \/ ~strict THEN Return(Undefined) ELSE Throw("TypeError")

----------------------------------------------------------------------------
(* The validation library: z.object(shape).safeParse(runtimeEnv) *)

Rules == {"string", "optional", "number"}
EnvStrings == {"a", "1"}

\* the rule each name carries when it is declared in a group
SchemaRule ==
    [k \in KeyUniverse |->
        IF k = DB THEN "string"
        ELSE IF k = client THEN "optional"
        ELSE IF k = NEXT_PUBLIC_A THEN "number"
        ELSE "string"]

EnvGet(runtimeEnv, k) ==
    IF k \in DOMAIN runtimeEnv THEN Str(runtimeEnv[k]) ELSE Undefined

\* z.string(), z.string().optional(), z.coerce.number()
ParseField(rule, v) ==
    IF rule = "string" THEN [ok |-> v[1] = "string", out |-> v]
    ELSE IF rule = "optional" THEN [ok |-> TRUE, out |-> v]
    ELSE IF v = Str("1") THEN [ok |-> TRUE, out |-> Num("1")]
    ELSE [ok |-> FALSE, out |-> Undefined]

safeParse(schema, runtimeEnv) ==
    LET issues == {k \in DOMAIN schema : ~ParseField(schema[k], EnvGet(runtimeEnv, k)).ok}
        present == {k \in DOMAIN schema : ParseField(schema[k], EnvGet(runtimeEnv, k)).out # Undefined}
    IN  IF issues = {}
        THEN [success |-> TRUE,
              data |-> [k \in present |-> ParseField(schema[k], EnvGet(runtimeEnv, k)).out],
              issues |-> {}]
        ELSE [success |-> FALSE, data |-> EmptyObj, issues |-> issues]

----------------------------------------------------------------------------
(* createEnv: helpers *)

isError(r) == r.success = FALSE

makeObjectSchema(map) == [k \in DOMAIN map |-> map[k]]

\* String.prototype.startsWith
startsWith(key, prefix) ==
    /\ Len(prefix) <= Len(key)
    /\ SubSeq(key, 1, Len(prefix)) = prefix

\* receiver and argument exchanged: prefix.startsWith(key)
prefixOk_swapped(key, prefix) == startsWith(prefix, key)

prefixOk(key, prefix) == startsWith(key, prefix)

NoError == [name |-> "none", group |-> "", issues |-> {}]

\* the two prefix loops, server first
PrefixCheck(server, clientGroup, clientPrefix) ==
    IF \E key \in DOMAIN server : prefixOk(key, clientPrefix)
    THEN [name |-> "EnvConfigError", group |-> "server", issues |-> {}]
    ELSE IF \E key \in DOMAIN clientGroup : ~prefixOk(key, clientPrefix)
    THEN [name |-> "EnvConfigError", group |-> "client", issues |-> {}]
    ELSE NoError

\* the context test always answering "server"
isServer_always(w) == TRUE

\* typeof window === "undefined"
isServer(w) == w = "undefined"

\* the server group parsed in every context
serverValues_always(isSrv, serverSchema, runtimeEnv) == safeParse(serverSchema, runtimeEnv)

serverValues(isSrv, serverSchema, runtimeEnv) ==
    IF isSrv THEN safeParse(serverSchema, runtimeEnv)
    ELSE [success |-> TRUE, data |-> EmptyObj, issues |-> {}]

clientValues(clientSchema, runtimeEnv) == safeParse(clientSchema, runtimeEnv)

\* only issues[0] reported
ValidationCheck_first(sv, cv) ==
    IF isError(sv)
    THEN [name |-> "EnvValidationError", group |-> "server",
          issues |-> {CHOOSE k \in sv.issues : TRUE}]
    ELSE IF isError(cv)
    THEN [name |-> "EnvValidationError", group |-> "client",
          issues |-> {CHOOSE k \in cv.issues : TRUE}]
    ELSE NoError

\* the two isError branches, server first; issues are the lines of the message
ValidationCheck(sv, cv) ==
    IF isError(sv)
    THEN [name |-> "EnvValidationError", group |-> "server", issues |-> sv.issues]
    ELSE IF isError(cv)
    THEN [name |-> "EnvValidationError", group |-> "client", issues |-> cv.issues]
    ELSE NoError

serverData(sv) == IF sv.success THEN sv.data ELSE EmptyObj

\* first definition: { ...(isServer ? serverData : {}), ...clientData, client: clientData }
target(isSrv, sData, clientData) ==
    Spread(Spread(IF isSrv THEN sData ELSE EmptyObj, clientData),
           [k \in {client} |-> ClientRef])

\* second definition: { ...(isServer ? serverData : {}), ...clientData }
merged(isSrv, sData, clientData) ==
    Spread(IF isSrv THEN sData ELSE EmptyObj, clientData)

\* verbose && isServer: the declared keys that read undefined in the merged object
missingKeys(verbose, isSrv, server, clientGroup, tgt) ==
    IF verbose /\ isSrv
    THEN {k \in DOMAIN server \cup DOMAIN clientGroup : ReflectGet(tgt, k) = Undefined}
    ELSE {}

\* a get trap without the guard
get_unguarded(isSrv, server, tgt, prop) == Return(ReflectGet(tgt, prop))

\* a get trap that tests the ambient context at each read
get_ambient(isSrv, server, tgt, prop) ==
    IF ~isServer(window) /\ typeofProp(prop) = "string" /\ HasProperty(server, prop)
    THEN Throw("EnvConfigError")
    ELSE Return(ReflectGet(tgt, prop))

\* the Proxy's get trap
get(isSrv, server, tgt, prop) ==
    IF ~isSrv /\ typeofProp(prop) = "string" /\ HasProperty(server, prop)
    THEN Throw("EnvConfigError")
    ELSE Return(ReflectGet(tgt, prop))

\* result[prop]
Read(g, prop) == get(g.isServer, g.server, g.target, prop)

\* result.client[k]
ReadClient(g, cobj, k) ==
    LET c == Read(g, client)
    IN  IF c.outcome = "throw" THEN c
        ELSE IF c.value = ClientRef THEN Return(ReflectGet(cobj.props, k))
        ELSE IF c.value = Undefined THEN Throw("TypeError")
        ELSE Return(Undefined)

----------------------------------------------------------------------------
(* Inputs *)

SubsetsUpTo(S, n) == {T \in SUBSET S : Cardinality(T) <= n}

SchemaGroups(names) == {[k \in T |-> SchemaRule[k]] : T \in SubsetsUpTo(names, MaxGroupKeys)}

RuntimeEnvs == UNION {[T -> EnvStrings] : T \in SubsetsUpTo(EnvNames, MaxEnvKeys)}

Configs ==
    [server : SchemaGroups(ServerNames), client : SchemaGroups(ClientNames),
     runtimeEnv : RuntimeEnvs, clientPrefix : Prefixes]

NoConfig ==
    [server |-> EmptyObj, client |-> EmptyObj, runtimeEnv |-> EmptyObj,
     clientPrefix |-> DEFAULT_PREFIX]

NoCall ==
    [impl |-> 0, config |-> NoConfig, ctx |-> "undefined", parsed |-> {}, warned |-> {}]

NoGuarded == [target |-> EmptyObj, isServer |-> TRUE, server |-> EmptyObj]
NoClientObj == [props |-> EmptyObj, frozen |-> FALSE]
NoSnapshot == [top |-> EmptyObj, client |-> EmptyObj]
NoOp == [op |-> "none", prop |-> <<>>, outcome |-> "none", value |-> Undefined]

Op(name, prop, completion) ==
    [op |-> name, prop |-> prop, outcome |-> completion.outcome, value |-> completion.value]

SnapshotOf(cfg, g, cobj) ==
    [top |-> [k \in DOMAIN cfg.server \cup DOMAIN cfg.client |-> Read(g, k)],
     client |-> [k \in DOMAIN cfg.client |-> ReadClient(g, cobj, k)]]

----------------------------------------------------------------------------
(* State machine *)

Init ==
    /\ window \in {"undefined", "object"}
    /\ strictMode \in BOOLEAN
    /\ pc = "idle"
    /\ call = NoCall
    /\ thrown = NoError
    /\ guarded = NoGuarded
    /\ clientObj = NoClientObj
    /\ snapshot = NoSnapshot
    /\ lastOp = NoOp
    /\ writes = 0

Fails(impl, cfg, err, parsed) ==
    /\ pc' = "threw"
    /\ call' = [impl |-> impl, config |-> cfg, ctx |-> window, parsed |-> parsed, warned |-> {}]
    /\ thrown' = err
    /\ guarded' = NoGuarded
    /\ clientObj' = NoClientObj
    /\ snapshot' = NoSnapshot

Succeeds(impl, cfg, parsed, warned, g, cobj) ==
    /\ pc' = "returned"
    /\ call' = [impl |-> impl, config |-> cfg, ctx |-> window, parsed |-> parsed, warned |-> warned]
    /\ thrown' = NoError
    /\ guarded' = g
    /\ clientObj' = cobj
    /\ snapshot' = SnapshotOf(cfg, g, cobj)

ParsedGroups(isSrv) == (IF isSrv THEN {"server"} ELSE {}) \cup {"client"}

\* first definition of createEnv
createEnv(cfg, verbose) ==
    /\ pc = "idle"
    /\ LET perr == PrefixCheck(cfg.server, cfg.client, cfg.clientPrefix)
           isSrv == isServer(window)
           sv == serverValues(isSrv, makeObjectSchema(cfg.server), cfg.runtimeEnv)
           cv == clientValues(makeObjectSchema(cfg.client), cfg.runtimeEnv)
           verr == ValidationCheck(sv, cv)
           clientData == cv.data
           tgt == target(isSrv, serverData(sv), clientData)
           g == [target |-> tgt, isServer |-> isSrv, server |-> cfg.server]
       IN  IF perr.name # "none" THEN Fails(1, cfg, perr, {})
           ELSE IF verr.name # "none" THEN Fails(1, cfg, verr, ParsedGroups(isSrv))
           ELSE Succeeds(1, cfg, ParsedGroups(isSrv),
                         missingKeys(verbose, isSrv, cfg.server, cfg.client, tgt),
                         g, [props |-> clientData, frozen |-> FALSE])
    /\ UNCHANGED <<window, strictMode, lastOp, writes>>

\* second definition of createEnv
createEnv_2(cfg, verbose) ==
    /\ pc = "idle"
    /\ LET perr == PrefixCheck(cfg.server, cfg.client, cfg.clientPrefix)
           isSrv == isServer(window)
           sv == serverValues(isSrv, makeObjectSchema(cfg.server), cfg.runtimeEnv)
           cv == clientValues(makeObjectSchema(cfg.client), cfg.runtimeEnv)
           verr == ValidationCheck(sv, cv)
           clientData == cv.data
           frozenMerged == merged(isSrv, serverData(sv), clientData)
           frozenClient == [props |-> clientData, frozen |-> TRUE]
           \* (guarded as any).client = frozenClient: no set trap, so [[Set]] on the frozen target
           assign == OrdinarySet(frozenMerged, TRUE, client, ClientRef)
           g == [target |-> assign.obj, isServer |-> isSrv, server |-> cfg.server]
       IN  IF perr.name # "none" THEN Fails(2, cfg, perr, {})
           ELSE IF verr.name # "none" THEN Fails(2, cfg, verr, ParsedGroups(isSrv))
           ELSE IF WriteCompletion(assign.ok, strictMode).outcome = "throw"
           THEN Fails(2, cfg, [name |-> "TypeError", group |-> "", issues |-> {}],
                      ParsedGroups(isSrv))
           ELSE Succeeds(2, cfg, ParsedGroups(isSrv),
                         missingKeys(verbose, isSrv, cfg.server, cfg.client, frozenMerged),
                         g, frozenClient)
    /\ UNCHANGED <<window, strictMode, lastOp, writes>>

\* result[prop]
GetProp(prop) ==
    /\ pc = "returned"
    /\ lastOp' = Op("get", prop, Read(guarded, prop))
    /\ UNCHANGED <<window, strictMode, pc, call, thrown, guarded, clientObj, snapshot, writes>>

\* result.client[k]
GetClientProp(k) ==
    /\ pc = "returned"
    /\ lastOp' = Op("getClient", k, ReadClient(guarded, clientObj, k))
    /\ UNCHANGED <<window, strictMode, pc, call, thrown, guarded, clientObj, snapshot, writes>>

\* result[prop] = v: the Proxy has no set trap, the write goes to the frozen target
SetProp(prop, v) ==
    /\ pc = "returned"
    /\ writes < MaxWrites
    /\ LET r == OrdinarySet(guarded.target, TRUE, prop, v)
       IN  /\ guarded' = [guarded EXCEPT !.target = r.obj]
           /\ lastOp' = Op("set", prop, WriteCompletion(r.ok, strictMode))
    /\ writes' = writes + 1
    /\ UNCHANGED <<window, strictMode, pc, call, thrown, clientObj, snapshot>>

\* delete result[prop]
DeleteProp(prop) ==
    /\ pc = "returned"
    /\ writes < MaxWrites
    /\ LET r == OrdinaryDelete(guarded.target, TRUE, prop)
       IN  /\ guarded' = [guarded EXCEPT !.target = r.obj]
           /\ lastOp' = Op("delete", prop, WriteCompletion(r.ok, strictMode))
    /\ writes' = writes + 1
    /\ UNCHANGED <<window, strictMode, pc, call, thrown, clientObj, snapshot>>

\* result.client[k] = v
SetClientProp(k, v) ==
    /\ pc = "returned"
    /\ writes < MaxWrites
    /\ LET c == Read(guarded, client)
           r == OrdinarySet(clientObj.props, clientObj.frozen, k, v)
       IN  IF c.outcome = "throw"
           THEN /\ lastOp' = Op("setClient", k, c)
                /\ UNCHANGED clientObj
           ELSE IF c.value = ClientRef
           THEN /\ lastOp' = Op("setClient", k, WriteCompletion(r.ok, strictMode))
                /\ clientObj' = [clientObj EXCEPT !.props = r.obj]
           ELSE IF c.value = Undefined
           THEN /\ lastOp' = Op("setClient", k, Throw("TypeError"))
                /\ UNCHANGED clientObj
           ELSE /\ lastOp' = Op("setClient", k, WriteCompletion(FALSE, strictMode))
                /\ UNCHANGED clientObj
    /\ writes' = writes + 1
    /\ UNCHANGED <<window, strictMode, pc, call, thrown, guarded, snapshot>>

\* delete result.client[k]
DeleteClientProp(k) ==
    /\ pc = "returned"
    /\ writes < MaxWrites
    /\ LET c == Read(guarded, client)
           r == OrdinaryDelete(clientObj.props, clientObj.frozen, k)
       IN  IF c.outcome = "throw"
           THEN /\ lastOp' = Op("deleteClient", k, c)
                /\ UNCHANGED clientObj
           ELSE IF c.value = ClientRef
           THEN /\ lastOp' = Op("deleteClient", k, WriteCompletion(r.ok, strictMode))
                /\ clientObj' = [clientObj EXCEPT !.props = r.obj]
           ELSE IF c.value = Undefined
           THEN /\ lastOp' = Op("deleteClient", k, Throw("TypeError"))
                /\ UNCHANGED clientObj
           ELSE /\ lastOp' = Op("deleteClient", k, Return(Undefined))
                /\ UNCHANGED clientObj
    /\ writes' = writes + 1
    /\ UNCHANGED <<window, strictMode, pc, call, thrown, guarded, snapshot>>

\* the ambient browser-global appears or disappears after the call
WindowChanges ==
    /\ pc = "returned"
    /\ window' = IF window = "undefined" THEN "object" ELSE "undefined"
    /\ UNCHANGED <<strictMode, pc, call, thrown, guarded, clientObj, snapshot, lastOp, writes>>

WriteValue == Str("x")
\* names a caller tries to write: a server key, a client key, the client field, a new name
WriteProps == {DB, NEXT_PUBLIC_A, client, UNDECLARED}
ClientWriteProps == {NEXT_PUBLIC_A, NEXT_PUBLIC_B, UNDECLARED}

Next ==
    \/ pc = "idle" /\ \E cfg \in Configs, verbose \in BOOLEAN : createEnv(cfg, verbose)
    \/ pc = "idle" /\ \E cfg \in Configs, verbose \in BOOLEAN : createEnv_2(cfg, verbose)
    \/ \E prop \in Props : GetProp(prop)
    \/ \E k \in KeyUniverse : GetClientProp(k)
    \/ \E prop \in WriteProps : SetProp(prop, WriteValue)
    \/ \E prop \in WriteProps : DeleteProp(prop)
    \/ \E k \in ClientWriteProps : SetClientProp(k, WriteValue)
    \/ \E k \in ClientWriteProps : DeleteClientProp(k)
    \/ WindowChanges

Spec == Init /\ [][Next]_vars

----------------------------------------------------------------------------
(* Vocabulary of the properties *)

Cfg == call.config
ServerKeys == DOMAIN Cfg.server
ClientKeys == DOMAIN Cfg.client
InBrowser == call.ctx = "object"
InServer == call.ctx = "undefined"
Constructed == pc = "returned"

PrefixViolation ==
    \/ \E k \in ServerKeys : startsWith(k, Cfg.clientPrefix)
    \/ \E k \in ClientKeys : ~startsWith(k, Cfg.clientPrefix)

FailingFields(group) ==
    {k \in DOMAIN group : ~ParseField(group[k], EnvGet(Cfg.runtimeEnv, k)).ok}

ValidatedValue(group, k) == ParseField(group[k], EnvGet(Cfg.runtimeEnv, k)).out

ConfigError == <<"error", "EnvConfigError">>

----------------------------------------------------------------------------
(* C1 *)

\* C1: in a Result Object built in a browser context, every read of a declared
\* server key throws EnvConfigError, whether or not runtimeEnv carries the key
\* and whether or not the key is an own property of the target.
C1_ServerKeyReadThrowsInBrowser ==
    (Constructed /\ InBrowser) =>
        /\ \A k \in ServerKeys : Read(guarded, k) = Throw("EnvConfigError")
        /\ (lastOp.op = "get" /\ lastOp.prop \in ServerKeys) =>
               (lastOp.outcome = "throw" /\ lastOp.value = ConfigError)

C1_Witness ==
    /\ Constructed /\ InBrowser
    /\ lastOp.op = "get"
    /\ lastOp.prop \in ServerKeys
    /\ lastOp.prop \in DOMAIN Cfg.runtimeEnv
    /\ lastOp.prop \notin DOMAIN guarded.target
    /\ lastOp.outcome = "throw"

----------------------------------------------------------------------------
(* C2 *)

\* C2: a server key carrying the client prefix, or a client key lacking it,
\* makes createEnv throw EnvConfigError in either context and for any
\* runtimeEnv, before any safeParse call, so never an EnvValidationError.
C2_PrefixViolationIsConfigError ==
    (pc # "idle" /\ PrefixViolation) =>
        /\ pc = "threw"
        /\ thrown.name = "EnvConfigError"
        /\ call.parsed = {}

C2_Witness ==
    /\ pc = "threw"
    /\ PrefixViolation
    /\ thrown.name = "EnvConfigError"
    /\ InBrowser
    /\ FailingFields(Cfg.server) # {}
    /\ FailingFields(Cfg.client) # {}

----------------------------------------------------------------------------
(* C3 *)

\* C3 (as stated): in a Result Object built in a browser context no declared
\* server key is an own property of the object.
C3_Original ==
    (Constructed /\ InBrowser) =>
        \A k \in ServerKeys : k \notin DOMAIN guarded.target

\* C3 (amended): in a Result Object built in a browser context no own property
\* holds a value of the server group: a declared server key other than the
\* name `client` is not an own property, and an own property `client` holds
\* the client sub-object.
C3_NoServerValueInBrowser ==
    (Constructed /\ InBrowser) =>
        /\ \A k \in ServerKeys \ {client} : k \notin DOMAIN guarded.target
        /\ client \in DOMAIN guarded.target => guarded.target[client] = ClientRef

C3_Witness ==
    /\ Constructed /\ InBrowser
    /\ \E k \in ServerKeys \ {client} :
           /\ k \in DOMAIN Cfg.runtimeEnv
           /\ k \notin FailingFields(Cfg.server)
           /\ k \notin DOMAIN guarded.target

----------------------------------------------------------------------------
(* C4 *)

\* C4: with valid prefixes and a runtimeEnv in which every declared key
\* satisfies its rule, createEnv in a server context returns, and reading any
\* declared key of either group returns its validated value.
C4_Original ==
    (/\ pc # "idle"
     /\ InServer
     /\ ~PrefixViolation
     /\ FailingFields(Cfg.server) = {}
     /\ FailingFields(Cfg.client) = {}) =>
        /\ Constructed
        /\ \A k \in ServerKeys : Read(guarded, k) = Return(ValidatedValue(Cfg.server, k))
        /\ \A k \in ClientKeys : Read(guarded, k) = Return(ValidatedValue(Cfg.client, k))

----------------------------------------------------------------------------
(* C5 *)

ValidatedFailures ==
    (IF InServer THEN FailingFields(Cfg.server) ELSE {}) \cup FailingFields(Cfg.client)

----------------------------------------------------------------------------
(* C6 *)

\* C6 (as stated): the message of an EnvValidationError lists every declared
\* field that failed validation in that call, server and client alike.
C6_Original ==
    (thrown.name = "EnvValidationError") => thrown.issues = ValidatedFailures

\* C6 (amended): the message of an EnvValidationError lists every failing
\* field of the one group it reports: the server group when a server field
\* failed in a server context, otherwise the client group.
C6_ListsEveryFailingFieldOfReportedGroup ==
    (thrown.name = "EnvValidationError") =>
        /\ thrown.group \in {"server", "client"}
        /\ thrown.group = "server" <=> (InServer /\ FailingFields(Cfg.server) # {})
        /\ thrown.group = "server" => thrown.issues = FailingFields(Cfg.server)
        /\ thrown.group = "client" => thrown.issues = FailingFields(Cfg.client)

C6_Witness ==
    /\ thrown.name = "EnvValidationError"
    /\ Cardinality(thrown.issues) >= 2
    /\ InServer
    /\ FailingFields(Cfg.server) = {}

----------------------------------------------------------------------------
(* C7 *)

\* C7: after any caller write attempts, every declared key read from the Result
\* Object and from result.client yields what it yielded right after construction.
C7_Original ==
    Constructed => SnapshotOf(Cfg, guarded, clientObj) = snapshot

----------------------------------------------------------------------------
(* C8 *)

\* C8: after a successful construction in either context, result.client reads
\* as an object whose keys are declared client keys only, each declared client
\* key mapped to its validated value.
C8_Original ==
    (Constructed /\ writes = 0) =>
        /\ Read(guarded, client) = Return(ClientRef)
        /\ DOMAIN clientObj.props \subseteq ClientKeys
        /\ \A k \in ClientKeys :
               ReadClient(guarded, clientObj, k) = Return(ValidatedValue(Cfg.client, k))

----------------------------------------------------------------------------
(* C9 *)

\* C9: every read in a server context, and every browser-context read of a
\* property that is not a declared server key, returns the target's value
\* unmodified and never throws.
C9_Original ==
    Constructed =>
        \A prop \in Props :
            (InServer \/ prop \notin ServerKeys) =>
                Read(guarded, prop) = Return(ReflectGet(guarded.target, prop))

----------------------------------------------------------------------------
(* C10 *)

\* C10: whether a read of a declared server key throws is fixed by the context
\* at the createEnv call, for every read of the object's lifetime, whatever
\* the ambient window is at the time of the read.
C10_GuardFollowsContextAtCall ==
    Constructed =>
        /\ \A k \in ServerKeys : (Read(guarded, k).outcome = "throw") <=> InBrowser
        /\ (lastOp.op = "get" /\ lastOp.prop \in ServerKeys) =>
               ((lastOp.outcome = "throw") <=> InBrowser)

C10_Witness ==
    /\ Constructed
    /\ window # call.ctx
    /\ InServer
    /\ lastOp.op = "get"
    /\ lastOp.prop \in ServerKeys
    /\ lastOp.outcome = "return"

====
